---------------------------- MODULE Spec2Model ----------------------------
(***************************************************************************)
(* A model of kobold's ObjectProperty deserializer                         *)
(* (src/kobold/src/object_property/serialization.rs).                      *)
(*                                                                         *)
(* Numbers wider than TLC's integers (u32 flag words, usize lengths, u64   *)
(* and i64 bit fields) are kept as bit sets: the set of the positions of   *)
(* the bits that are 1, position 0 being the least significant bit.  An    *)
(* i64 is the bit set of its two's-complement pattern.                     *)
(*                                                                         *)
(* Every call is one action; `last` records what the latest call was       *)
(* given, what it returned and what it did on the way.  Spec follows an    *)
(* engine through priming and decoding; SpecPrime follows the priming      *)
(* alone, over many more buffers.  The bit cursor, the type registry and   *)
(* the identity strategies are not in this file's source: they are         *)
(* modelled from their documented contracts.                               *)
(***************************************************************************)
EXTENDS Integers, Sequences, FiniteSets, TLC

VARIABLES
    flags,              \* options.flags: the set of bit positions that are set
    property_mask,      \* options.property_mask: a set of PropertyFlags names
    manual_compression, \* options.manual_compression
    recursion_limit,    \* options.recursion_limit, a u8
    reader,             \* the BitReader: [buf |-> bytes, pos |-> bit offset]
    tag,                \* the identity strategy T of Deserializer<'de, T>
    last                \* what the latest call was given and what it returned

vars == <<flags, property_mask, manual_compression, recursion_limit, reader, tag, last>>

---------------------------------------------------------------------------
(* Bounds of the exploration. *)

\* The largest recursion_limit an engine is constructed with.
MaxLimit == 2
\* How far below u8::MAX a wrapped-around budget is still followed.
MaxWrapDepth == 1

---------------------------------------------------------------------------
(* SerializerFlags: the bit positions of the five flags. *)

STATEFUL_FLAGS == 0
COMPACT_LENGTH_PREFIXES == 1
HUMAN_READABLE_ENUMS == 2
WITH_COMPRESSION == 3
FORBID_DELTA_ENCODE == 4

\* SerializerFlags::all(): the bits bitflags! declares.
KnownFlags ==
    {STATEFUL_FLAGS, COMPACT_LENGTH_PREFIXES, HUMAN_READABLE_ENUMS,
     WITH_COMPRESSION, FORBID_DELTA_ENCODE}

\* A variant that keeps every bit of the word.
FromBitsRetain(word) == word

\* SerializerFlags::from_bits_truncate: unknown bits are dropped.
FromBitsTruncate(word) == word \cap KnownFlags

\* u8::MAX, u8::BITS, u32::BITS and the width of u64/i64.
U8Max == 255
U8Bits == 8
U32Bits == 32
U64Bits == 64

\* DeserializerOptions::default().recursion_limit = u8::MAX / 2.
DefaultRecursionLimit == U8Max \div 2

---------------------------------------------------------------------------
(* Bytes and bits. *)

RECURSIVE Pow2(_)
Pow2(k) == IF k = 0 THEN 1 ELSE 2 * Pow2(k - 1)

\* Bit i (0 = least significant) of the byte b.
ByteBit(b, i) == (b \div Pow2(i)) % 2 = 1

\* Bit number p of a byte buffer: bytes in order, each from its least
\* significant bit.
BufBit(buf, p) == ByteBit(buf[(p \div 8) + 1], p % 8)

\* The bit set of a natural number small enough for TLC.
NatBits(k) == {i \in 0..30 : (k \div Pow2(i)) % 2 = 1}

\* The little-endian word held by the first Len(bytes) bytes, as a bit set.
LEBits(bytes) == {i \in 0..(8 * Len(bytes) - 1) : BufBit(bytes, i)}

Drop(s, k) == SubSeq(s, k + 1, Len(s))
Take(s, k) == SubSeq(s, 1, k)

Ok(v, r) == [ok |-> TRUE, err |-> "none", v |-> v, r |-> r]
Err(e, r) == [ok |-> FALSE, err |-> e, v |-> {}, r |-> r]

---------------------------------------------------------------------------
(* byteorder's reads from a byte slice (`data.read_u32::<LE>()`,           *)
(* `data.read_u8()`): the value and the rest of the slice, or an           *)
(* UnexpectedEof error, reported here as Truncated.                        *)

SliceReadU32(data) ==
    IF Len(data) < 4 THEN Err("Truncated", data)
    ELSE Ok(LEBits(Take(data, 4)), Drop(data, 4))

\* A variant that returns the byte and leaves it in the slice.
SliceReadU8Peek(data) ==
    IF Len(data) < 1 THEN Err("Truncated", data)
    ELSE Ok(LEBits(Take(data, 1)), data)

SliceReadU8(data) ==
    IF Len(data) < 1 THEN Err("Truncated", data)
    ELSE Ok(LEBits(Take(data, 1)), Drop(data, 1))

---------------------------------------------------------------------------
(* The bit cursor (super::reader::BitReader).                              *)

\* BitReader::new(data) and BitReader::default().
NewReader(buf) == [buf |-> buf, pos |-> 0]

BitsLeft(r) == 8 * Len(r.buf) - r.pos

\* read_bit: one bit, as the bit set {0} (set) or {} (clear).
ReadBit(r) ==
    IF BitsLeft(r) < 1 THEN Err("Truncated", r)
    ELSE Ok(IF BufBit(r.buf, r.pos) THEN {0} ELSE {}, [r EXCEPT !.pos = @ + 1])

\* read_value_bits(n): the next n bits, the first read being bit 0.
ReadValueBits(r, n) ==
    IF BitsLeft(r) < n THEN Err("Truncated", r)
    ELSE Ok({k \in 0..(n - 1) : BufBit(r.buf, r.pos + k)}, [r EXCEPT !.pos = @ + n])

\* realign_to_byte: skip to the next byte boundary.
RealignToByte(r) == [r EXCEPT !.pos = ((@ + 7) \div 8) * 8]

\* load_u8 / load_u16 / load_u32: a little-endian fixed-width load.
LoadU8(r) == ReadValueBits(r, U8Bits)
LoadU16(r) == ReadValueBits(r, 16)
LoadU32(r) == ReadValueBits(r, U32Bits)

---------------------------------------------------------------------------
(* zlib (flate2's ZlibDecoder), an external library, stood in for by a     *)
(* small codec with the properties feed_data relies on: a stream is valid  *)
(* or not, and a valid stream inflates to bytes whose number is unrelated  *)
(* to the stream's own length.  A stream is the header byte 0x78 followed  *)
(* by (count, byte) pairs; each pair inflates to `count` copies of `byte`. *)

ZlibHeader == 120

RECURSIVE Repeat(_, _)
Repeat(b, k) == IF k = 0 THEN <<>> ELSE <<b>> \o Repeat(b, k - 1)

RECURSIVE Inflate(_)
Inflate(pairs) ==
    IF Len(pairs) = 0 THEN <<>>
    ELSE Repeat(pairs[2], pairs[1]) \o Inflate(Drop(pairs, 2))

\* zlib_decompress(data, buf): the inflated bytes, or an io::Error.
ZlibDecompress(data) ==
    IF Len(data) = 0 \/ data[1] # ZlibHeader \/ (Len(data) - 1) % 2 # 0
    THEN [ok |-> FALSE, bytes |-> <<>>]
    ELSE [ok |-> TRUE, bytes |-> Inflate(Drop(data, 1))]

---------------------------------------------------------------------------
(* Deserializer::decompress_data.                                          *)
(* declared: the size word; zlib: "ok" or "failed", "none" when zlib was   *)
(* not run; inflated: the bytes zlib wrote to the scratch buffer.          *)

DecompressOut(ok, e, declared, zlib, inflated) ==
    [ok |-> ok, err |-> e, reader |-> NewReader(inflated),
     declared |-> declared, zlib |-> zlib, inflated |-> inflated]

\* A variant that skips the size check.
DecompressDataNoSizeCheck(data) ==
    LET size == SliceReadU32(data)
        z == ZlibDecompress(size.r)
    IN  IF ~size.ok THEN DecompressOut(FALSE, "Truncated", {}, "none", <<>>)
        ELSE IF ~z.ok THEN DecompressOut(FALSE, "ZlibError", size.v, "failed", <<>>)
        ELSE DecompressOut(TRUE, "none", size.v, "ok", z.bytes)

DecompressData(data) ==
    LET size == SliceReadU32(data)
        z == ZlibDecompress(size.r)
    IN  IF ~size.ok THEN DecompressOut(FALSE, "Truncated", {}, "none", <<>>)
        ELSE IF ~z.ok THEN DecompressOut(FALSE, "ZlibError", size.v, "failed", <<>>)
        ELSE IF NatBits(Len(z.bytes)) # size.v
             THEN DecompressOut(FALSE, "CompressionSizeMismatch", size.v, "ok", z.bytes)
        ELSE DecompressOut(TRUE, "none", size.v, "ok", z.bytes)

---------------------------------------------------------------------------
(* Deserializer::feed_data, as a function of the engine's flags and        *)
(* cursor and of the buffer.  The result holds the flags and cursor the    *)
(* engine is left with, and what the call did:                             *)
(*   had_word  whether an embedded flags word was read, and                *)
(*   word      that word ({} when none was read),                          *)
(*   indicator whether the indicator byte was read,                        *)
(*   z         what decompress_data did: [branch |-> "compressed", ...]    *)
(*             when it was called, NoZ when it was not.                    *)

NoZ == [branch |-> "raw", declared |-> {}, zlib |-> "none", inflated |-> <<>>]
Z(d) == [branch |-> "compressed", declared |-> d.declared, zlib |-> d.zlib,
         inflated |-> d.inflated]

FeedOut(ok, err, fl, rd, had_word, word, indicator, z) ==
    [ok |-> ok, err |-> err, flags |-> fl, reader |-> rd,
     had_word |-> had_word, word |-> word, indicator |-> indicator, z |-> z]

\* A variant of the manual mode that takes the flags word from the first
\* 4 bytes of the buffer and inflates what follows them.
FeedManualRawWord(fl, rd, data) ==
    LET stateful == STATEFUL_FLAGS \in fl
        w == SliceReadU32(data)
        d == DecompressData(IF stateful THEN w.r ELSE data)
    IN  IF stateful /\ ~w.ok THEN FeedOut(FALSE, w.err, fl, rd, FALSE, {}, FALSE, NoZ)
        ELSE IF ~d.ok THEN FeedOut(FALSE, d.err, fl, rd, FALSE, {}, FALSE, Z(d))
        ELSE IF ~stateful THEN FeedOut(TRUE, "none", fl, d.reader, FALSE, {}, FALSE, Z(d))
        ELSE FeedOut(TRUE, "none", FromBitsTruncate(w.v), d.reader, TRUE, w.v, FALSE, Z(d))

\* manual_compression: lines 141-148.
FeedManual(fl, rd, data) ==
    LET d == DecompressData(data)
        w == LoadU32(d.reader)
    IN  IF ~d.ok THEN FeedOut(FALSE, d.err, fl, rd, FALSE, {}, FALSE, Z(d))
        ELSE IF STATEFUL_FLAGS \notin fl
        THEN FeedOut(TRUE, "none", fl, d.reader, FALSE, {}, FALSE, Z(d))
        ELSE IF ~w.ok THEN FeedOut(FALSE, w.err, fl, rd, FALSE, {}, FALSE, Z(d))
        ELSE FeedOut(TRUE, "none", FromBitsTruncate(w.v), w.r, TRUE, w.v, FALSE, Z(d))

\* A variant of the automatic mode that tests WITH_COMPRESSION on the flags
\* the engine was configured with.
FeedAutoConfiguredFlags(fl, rd, data) ==
    LET stateful == STATEFUL_FLAGS \in fl
        w == SliceReadU32(data)
        fl1 == IF stateful THEN FromBitsTruncate(w.v) ELSE fl
        data1 == IF stateful THEN w.r ELSE data
        ind == SliceReadU8(data1)
        d == DecompressData(ind.r)
        word == IF stateful THEN w.v ELSE {}
    IN  IF stateful /\ ~w.ok
        THEN FeedOut(FALSE, w.err, fl, rd, FALSE, {}, FALSE, NoZ)
        ELSE IF WITH_COMPRESSION \notin fl
        THEN FeedOut(TRUE, "none", fl1, NewReader(data1), stateful, word, FALSE, NoZ)
        ELSE IF ~ind.ok
        THEN FeedOut(FALSE, ind.err, fl1, rd, stateful, word, FALSE, NoZ)
        ELSE IF ind.v = {}
        THEN FeedOut(TRUE, "none", fl1, NewReader(ind.r), stateful, word, TRUE, NoZ)
        ELSE IF ~d.ok
        THEN FeedOut(FALSE, d.err, fl1, rd, stateful, word, TRUE, Z(d))
        ELSE FeedOut(TRUE, "none", fl1, d.reader, stateful, word, TRUE, Z(d))

\* Automatic mode: lines 150-165.  The flags are assigned at line 152, before
\* the reads that follow can fail.
FeedAuto(fl, rd, data) ==
    LET stateful == STATEFUL_FLAGS \in fl
        w == SliceReadU32(data)
        fl1 == IF stateful THEN FromBitsTruncate(w.v) ELSE fl
        data1 == IF stateful THEN w.r ELSE data
        ind == SliceReadU8(data1)
        d == DecompressData(ind.r)
        word == IF stateful THEN w.v ELSE {}
    IN  IF stateful /\ ~w.ok
        THEN FeedOut(FALSE, w.err, fl, rd, FALSE, {}, FALSE, NoZ)
        ELSE IF WITH_COMPRESSION \notin fl1
        THEN FeedOut(TRUE, "none", fl1, NewReader(data1), stateful, word, FALSE, NoZ)
        ELSE IF ~ind.ok
        THEN FeedOut(FALSE, ind.err, fl1, rd, stateful, word, FALSE, NoZ)
        ELSE IF ind.v = {}
        THEN FeedOut(TRUE, "none", fl1, NewReader(ind.r), stateful, word, TRUE, NoZ)
        ELSE IF ~d.ok
        THEN FeedOut(FALSE, d.err, fl1, rd, stateful, word, TRUE, Z(d))
        ELSE FeedOut(TRUE, "none", fl1, d.reader, stateful, word, TRUE, Z(d))

\* A variant whose new cursor starts at the bit offset the previous cursor
\* had within its byte.
FeedDataCarryOver(fl, manual, rd, data) ==
    LET out == IF manual THEN FeedManual(fl, rd, data) ELSE FeedAuto(fl, rd, data)
        pos == out.reader.pos + (rd.pos % U8Bits)
    IN  IF out.ok /\ pos <= U8Bits * Len(out.reader.buf)
        THEN [out EXCEPT !.reader = [buf |-> out.reader.buf, pos |-> pos]]
        ELSE out

feed_data(fl, manual, rd, data) ==
    IF manual THEN FeedManual(fl, rd, data) ELSE FeedAuto(fl, rd, data)

---------------------------------------------------------------------------
(* The length readers.                                                     *)

\* A variant whose small form reads a whole byte after the flag bit.
ReadCompactLengthPrefixWide(r) ==
    LET is_large == ReadBit(r)
    IN  IF ~is_large.ok THEN is_large
        ELSE IF is_large.v # {} THEN ReadValueBits(is_large.r, U32Bits - 1)
        ELSE ReadValueBits(is_large.r, U8Bits)

\* read_compact_length_prefix.
read_compact_length_prefix(r) ==
    LET is_large == ReadBit(r)
    IN  IF ~is_large.ok THEN is_large
        ELSE IF is_large.v # {} THEN ReadValueBits(is_large.r, U32Bits - 1)
        ELSE ReadValueBits(is_large.r, U8Bits - 1)

\* A variant that reads the length where the cursor is.
ImplReadLenUnaligned(fl, r, kind) ==
    IF COMPACT_LENGTH_PREFIXES \in fl THEN read_compact_length_prefix(r)
    ELSE IF kind = "str" THEN LoadU16(r)
    ELSE LoadU32(r)

\* impl_read_len!: read_str_len (kind "str", load_u16) and read_seq_len
\* (kind "seq", load_u32).
impl_read_len(fl, r, kind) ==
    LET aligned == RealignToByte(r)
    IN  IF COMPACT_LENGTH_PREFIXES \in fl THEN read_compact_length_prefix(aligned)
        ELSE IF kind = "str" THEN LoadU16(aligned)
        ELSE LoadU32(aligned)

---------------------------------------------------------------------------
(* Arbitrary-width bit fields.                                             *)

deserialize_unsigned_bits(r, n) == ReadValueBits(r, n)

\* `(!0) << n` on an i64: the bits n..63.  A shift by 64 or more overflows:
\* with overflow checks it panics, without them the amount is taken modulo 64.
ShlAllOnes(n, checks) ==
    IF n < U64Bits THEN [panic |-> FALSE, v |-> n..(U64Bits - 1)]
    ELSE IF checks THEN [panic |-> TRUE, v |-> {}]
    ELSE [panic |-> FALSE, v |-> (n % U64Bits)..(U64Bits - 1)]

\* deserialize_signed_bits: [ok, err, v, r] as a read, with panic set when the
\* closure panics; raw is the value deserialize_unsigned_bits returned.
deserialize_signed_bits(r, n, checks) ==
    LET u == deserialize_unsigned_bits(r, n)
        ext == ShlAllOnes(n, checks)
    IN  IF ~u.ok THEN [ok |-> FALSE, panic |-> FALSE, err |-> u.err, raw |-> {}, v |-> {}, r |-> u.r]
        ELSE IF (n - 1) \in u.v
        THEN IF ext.panic
             THEN [ok |-> FALSE, panic |-> TRUE, err |-> "shift overflow", raw |-> u.v,
                   v |-> {}, r |-> u.r]
             ELSE [ok |-> TRUE, panic |-> FALSE, err |-> "none", raw |-> u.v,
                   v |-> u.v \cup ext.v, r |-> u.r]
        ELSE [ok |-> TRUE, panic |-> FALSE, err |-> "none", raw |-> u.v, v |-> u.v, r |-> u.r]

---------------------------------------------------------------------------
(* The type registry and the identity strategies (super::type_list,        *)
(* super::TypeTag): code of the repository that this file only calls.      *)
(* Each strategy reads a fixed number of bits and looks the hash up; an    *)
(* all-zero hash means "no identity".                                      *)

Tags == {"PropertyClass", "CoreObject"}

\* The hashes the registry knows.
TypeList == {NatBits(1)}

\* The type definition the registry holds for that hash: its fields in wire
\* order, each with its PropertyFlags (by name) and the width of its value.
TypeDef ==
    << [name |-> "delta", flags |-> {"TRANSMIT", "DELTA_ENCODE"}, bits |-> U8Bits],
       [name |-> "shared", flags |-> {"TRANSMIT"}, bits |-> U8Bits],
       [name |-> "privileged", flags |-> {"PRIVILEGED_TRANSMIT"}, bits |-> U8Bits] >>

\* The bits a strategy reads: a u32 hash, preceded by one byte for core objects.
IdentityPrefixBits(t) == IF t = "CoreObject" THEN U8Bits ELSE 0
IdentityBits(t) == IdentityPrefixBits(t) + U32Bits

\* T::object_identity(this, types): found tells Some(type_def) from None.
object_identity(t, r) ==
    LET id == ReadValueBits(r, IdentityBits(t))
        hash == {i - IdentityPrefixBits(t) : i \in {j \in id.v : j >= IdentityPrefixBits(t)}}
    IN  [ok |-> id.ok, err |-> id.err, found |-> id.ok /\ hash \in TypeList, r |-> id.r]

---------------------------------------------------------------------------
(* check_recursion! and Deserializer::deserialize.                         *)

\* `recursion_limit -= 1` on a u8: underflow panics with overflow checks and
\* wraps without them.
BudgetEnter(limit, checks) ==
    IF limit > 0 THEN [panic |-> FALSE, v |-> limit - 1]
    ELSE IF checks THEN [panic |-> TRUE, v |-> limit]
    ELSE [panic |-> FALSE, v |-> U8Max]

\* A variant that does not give the unit back.
BudgetExitKeep(limit, checks) == [panic |-> FALSE, v |-> limit]

\* `recursion_limit += 1` on a u8.
BudgetExit(limit, checks) ==
    IF limit < U8Max THEN [panic |-> FALSE, v |-> limit + 1]
    ELSE IF checks THEN [panic |-> TRUE, v |-> limit]
    ELSE [panic |-> FALSE, v |-> 0]

\* identity: "not called", "error", "some" or "none"; id_end: the bit offset
\* the identity strategy left the cursor at.
DeserializeOut(outcome, error, limit, r, value, identity, id_end, depth) ==
    [outcome |-> outcome, error |-> error, recursion_limit |-> limit, reader |-> r,
     value |-> value, identity |-> identity, id_end |-> id_end, depth |-> depth]

\* A variant that reads one more bit after an unresolved identity.
DeserializeEmptyReadsOn(r) == IF BitsLeft(r) > 0 THEN [r EXCEPT !.pos = @ + 1] ELSE r

\* The else branch of line 261: Value::Empty, the cursor left alone.
DeserializeEmpty(r) == r

\* A variant that resolves the identity before it tests the budget.
DeserializeIdentityFirst(limit, r, t, checks) ==
    LET enter == BudgetEnter(limit, checks)
        id == object_identity(t, r)
        exit == BudgetExit(enter.v, checks)
    IN  IF enter.panic
        THEN DeserializeOut("panic", "subtract overflow", limit, r, "none", "not called", r.pos, 1)
        ELSE IF ~id.ok
        THEN DeserializeOut("err", id.err, enter.v, id.r, "none", "error", id.r.pos, 1)
        ELSE IF enter.v = 0
        THEN DeserializeOut("err", "RecursionLimitExceeded", enter.v, id.r, "none",
                            IF id.found THEN "some" ELSE "none", id.r.pos, 1)
        ELSE IF id.found
        THEN DeserializeOut("panic", "todo", enter.v, id.r, "none", "some", id.r.pos, 1)
        ELSE IF exit.panic
        THEN DeserializeOut("panic", "add overflow", enter.v, DeserializeEmpty(id.r), "none",
                            "none", id.r.pos, 1)
        ELSE DeserializeOut("ok", "none", exit.v, DeserializeEmpty(id.r), "Empty",
                            "none", id.r.pos, 1)

\* deserialize: the budget and cursor the engine is left with, the outcome
\* ("ok", "err" or "panic"), whether the identity strategy was called, and
\* the number of deserialize invocations that were active at once.
deserialize(limit, r, t, checks) ==
    LET enter == BudgetEnter(limit, checks)
        id == object_identity(t, r)
        exit == BudgetExit(enter.v, checks)
    IN  IF enter.panic
        THEN DeserializeOut("panic", "subtract overflow", limit, r, "none", "not called", r.pos, 1)
        ELSE IF enter.v = 0
        THEN DeserializeOut("err", "RecursionLimitExceeded", enter.v, r, "none",
                            "not called", r.pos, 1)
        ELSE IF ~id.ok
        THEN DeserializeOut("err", id.err, enter.v, id.r, "none", "error", id.r.pos, 1)
        ELSE IF id.found
        THEN DeserializeOut("panic", "todo", enter.v, id.r, "none", "some", id.r.pos, 1)
        ELSE IF exit.panic
        THEN DeserializeOut("panic", "add overflow", enter.v, DeserializeEmpty(id.r), "none",
                            "none", id.r.pos, 1)
        ELSE DeserializeOut("ok", "none", exit.v, DeserializeEmpty(id.r), "Empty",
                            "none", id.r.pos, 1)

---------------------------------------------------------------------------
(* The inputs explored.                                                    *)

\* Buffers handed to feed_data when the framing is explored: every prefix
\* of each frame, so that each read of the framing is also met with too few
\* bytes.
Frames ==
    { <<8, 0, 0, 0, 1, 2, 0, 0, 0, 120, 2, 0>>,         \* flags, indicator, size 2, stream
      <<232, 0, 0, 128, 1, 4, 0, 0, 0, 120, 1, 2, 3, 0>>, \* flags with unknown bits
      <<8, 0, 0, 0, 0, 1, 0, 0, 0>>,                    \* flags, indicator 0, body
      <<8, 0, 0, 0, 1, 3, 0, 0, 0, 120, 2, 0>>,         \* declared 3, inflates to 2
      <<2, 0, 0, 0, 255, 255, 255, 255, 3>>,            \* flags, body
      <<120, 2, 0, 0, 0>>,                              \* a body
      <<1, 2, 0, 0, 0, 120, 2, 0>>,                     \* indicator, size 2, stream
      <<1, 0, 1, 0, 0, 120>>,                           \* declared 256, inflates to 0
      <<1, 0, 0, 0, 0, 119>>,                           \* not a stream
      <<8, 0, 0, 0, 120, 1, 232, 2, 0, 1, 128, 1, 1, 3, 0>>, \* size 8, stream
      <<2, 0, 0, 0, 120, 2, 0>>,                        \* size 2, stream
      <<8, 0, 0, 0, 120, 7, 0, 1, 128>>,                \* size 8, stream
      <<0, 5, 6>> }                                     \* indicator 0, body

Prefixes(f) == {Take(f, k) : k \in 0..Len(f)}
Inputs == UNION {Prefixes(f) : f \in Frames}

\* Buffers handed to feed_data when decoding is explored.
Bodies ==
    { <<>>,
      <<120, 2, 0, 0, 0>>,                  \* nibbles 8 and 7, then an unknown hash
      <<255, 1, 0, 0, 0>>,                  \* 0xFF, then a known hash
      <<0, 0, 0, 0, 0, 0, 0, 128>>,         \* a 64-bit field, only its top bit set
      <<2, 0, 0, 0, 120, 0>>,               \* as a flags word: COMPACT_LENGTH_PREFIXES
      <<8, 0, 0, 0, 120, 7, 0, 1, 128>> }   \* size 8 and a stream

\* Bit widths handed to the bit-field decoders.
Widths == {4, 8, U64Bits}

\* options.flags an engine is constructed with.
InitFlags ==
    { {}, {STATEFUL_FLAGS}, {WITH_COMPRESSION}, {COMPACT_LENGTH_PREFIXES},
      {STATEFUL_FLAGS, WITH_COMPRESSION},
      {STATEFUL_FLAGS, COMPACT_LENGTH_PREFIXES, FORBID_DELTA_ENCODE} }

DecodeFlags == { {}, {STATEFUL_FLAGS}, {COMPACT_LENGTH_PREFIXES} }

\* options.property_mask: the default of DeserializerOptions, and the masks
\* an engine is constructed with.  PropertyFlags are kept by name.
DefaultPropertyMask == {"TRANSMIT", "PRIVILEGED_TRANSMIT"}
Masks == { {"TRANSMIT"}, DefaultPropertyMask }

---------------------------------------------------------------------------
(* The record of the latest call.                                          *)

\* pre: the engine as the call found it; after_ok: for a deserialize call,
\* whether the call before it was a deserialize call that returned a value;
\* fields: the names of the fields of the object a deserialize call returned
\* (no path of deserialize returns an object: line 260 is `todo!()`).
Pre == [flags |-> flags, recursion_limit |-> recursion_limit, pos |-> reader.pos]
AfterOk == last.op = "deserialize" /\ last.outcome = "ok"

NoCall ==
    [op |-> "none", outcome |-> "none", error |-> "none",
     pre |-> [flags |-> {}, recursion_limit |-> 0, pos |-> 0],
     after_ok |-> FALSE,
     data |-> <<>>, had_word |-> FALSE, word |-> {}, indicator |-> FALSE, z |-> NoZ,
     n |-> 0, raw |-> {}, bits |-> {},
     value |-> "none", fields |-> {}, identity |-> "not called", id_end |-> 0,
     depth |-> 0]

Outcome(ok) == IF ok THEN "ok" ELSE "err"

\* A panic ends the run; a budget that wrapped around is followed only a few
\* units down.
Running == last.outcome # "panic"
BudgetExplored == recursion_limit <= MaxLimit \/ recursion_limit >= U8Max - MaxWrapDepth

---------------------------------------------------------------------------
(* The engine's operations.  Arithmetic overflow panics in a build with    *)
(* overflow checks and wraps in one without: each operation that can       *)
(* overflow takes either outcome.                                          *)

FeedData(data) ==
    \E out \in {feed_data(flags, manual_compression, reader, data)} :
        /\ Running
        /\ flags' = out.flags
        /\ reader' = out.reader
        /\ last' = [NoCall EXCEPT !.op = "feed_data", !.outcome = Outcome(out.ok),
                       !.error = out.err, !.pre = Pre, !.data = data,
                       !.had_word = out.had_word, !.word = out.word,
                       !.indicator = out.indicator, !.z = out.z]
        /\ UNCHANGED <<property_mask, manual_compression, recursion_limit, tag>>

ReadLen(kind) ==
    \E out \in {impl_read_len(flags, reader, kind)} :
        /\ Running
        /\ reader' = out.r
        /\ last' = [NoCall EXCEPT !.op = IF kind = "str" THEN "read_str_len" ELSE "read_seq_len",
                       !.outcome = Outcome(out.ok), !.error = out.err, !.pre = Pre,
                       !.bits = out.v]
        /\ UNCHANGED <<flags, property_mask, manual_compression, recursion_limit, tag>>

DeserializeUnsignedBits(n) ==
    \E out \in {deserialize_unsigned_bits(reader, n)} :
        /\ Running
        /\ reader' = out.r
        /\ last' = [NoCall EXCEPT !.op = "deserialize_unsigned_bits",
                       !.outcome = Outcome(out.ok), !.error = out.err, !.pre = Pre,
                       !.n = n, !.raw = out.v, !.bits = out.v]
        /\ UNCHANGED <<flags, property_mask, manual_compression, recursion_limit, tag>>

DeserializeSignedBits(n) ==
    \E checks \in BOOLEAN :
        \E out \in {deserialize_signed_bits(reader, n, checks)} :
            /\ Running
            /\ reader' = out.r
            /\ last' = [NoCall EXCEPT !.op = "deserialize_signed_bits",
                           !.outcome = IF out.panic THEN "panic" ELSE Outcome(out.ok),
                           !.error = out.err, !.pre = Pre,
                           !.n = n, !.raw = out.raw, !.bits = out.v]
            /\ UNCHANGED <<flags, property_mask, manual_compression, recursion_limit, tag>>

Deserialize ==
    \E checks \in BOOLEAN :
        \E out \in {deserialize(recursion_limit, reader, tag, checks)} :
            /\ Running
            /\ BudgetExplored
            /\ recursion_limit' = out.recursion_limit
            /\ reader' = out.reader
            /\ last' = [NoCall EXCEPT !.op = "deserialize", !.outcome = out.outcome,
                           !.error = out.error, !.pre = Pre, !.after_ok = AfterOk,
                           !.value = out.value, !.identity = out.identity,
                           !.id_end = out.id_end, !.depth = out.depth]
            /\ UNCHANGED <<flags, property_mask, manual_compression, tag>>

---------------------------------------------------------------------------
(* Spec: an engine is constructed, primed and decoded from.                *)

\* Deserializer::new(options): no data has been loaded.
Init ==
    /\ flags \in DecodeFlags
    /\ property_mask \in Masks
    /\ manual_compression \in BOOLEAN
    /\ recursion_limit \in 0..MaxLimit
    /\ tag \in Tags
    /\ reader = NewReader(<<>>)
    /\ last = NoCall

Next ==
    \/ \E data \in Bodies : FeedData(data)
    \/ \E kind \in {"str", "seq"} : ReadLen(kind)
    \/ \E n \in Widths : DeserializeUnsignedBits(n)
    \/ \E n \in Widths : DeserializeSignedBits(n)
    \/ Deserialize

Spec == Init /\ [][Next]_vars

(* SpecPrime: an engine is constructed and primed, again and again, with   *)
(* every framing.                                                          *)

InitPrime ==
    /\ flags \in InitFlags
    /\ property_mask = DefaultPropertyMask
    /\ manual_compression \in BOOLEAN
    /\ recursion_limit = DefaultRecursionLimit
    /\ tag = "PropertyClass"
    /\ reader = NewReader(<<>>)
    /\ last = NoCall

NextPrime == \E data \in Inputs : FeedData(data)

SpecPrime == InitPrime /\ [][NextPrime]_vars

---------------------------------------------------------------------------
(* Properties.                                                             *)

Deserialized == last.op = "deserialize"
Fed == last.op = "feed_data"
LenRead == last.op \in {"read_str_len", "read_seq_len"}

\* C1: whether deserialize returns a value or an error, recursion_limit
\* after the call equals its value before the call.
C1_BudgetKeptOnEveryReturn ==
    (Deserialized /\ last.outcome \in {"ok", "err"})
        => recursion_limit = last.pre.recursion_limit

\* C2: after a deserialize call that returns a value, recursion_limit equals
\* its value before the call, and a deserialize call that follows one that
\* returned a value does not fail with the recursion-limit error.
C2_BudgetRestoredOnSuccess ==
    /\ (Deserialized /\ last.outcome = "ok")
           => recursion_limit = last.pre.recursion_limit
    /\ (Deserialized /\ last.after_ok)
           => last.error # "RecursionLimitExceeded"

\* A deserialize call that returned a value right after another that did.
C2_Witness ==
    /\ Deserialized /\ last.outcome = "ok" /\ last.after_ok
    /\ last.pre.recursion_limit = 2 /\ recursion_limit = 2

\* C3: with recursion_limit L, a decode whose nesting depth is exactly L
\* does not fail with the recursion-limit error, and one whose depth is
\* greater than L does.
C3_LimitIsDeepestNesting ==
    Deserialized =>
        /\ last.depth = last.pre.recursion_limit
               => last.error # "RecursionLimitExceeded"
        /\ last.depth > last.pre.recursion_limit
               => last.error = "RecursionLimitExceeded"

\* C4: in automatic mode with STATEFUL configured, the first 4 bytes of the
\* buffer are read as a little-endian word that replaces the flags before
\* the compression check: when the word holds WITH_COMPRESSION and the
\* indicator byte that follows is nonzero, decompress_data is given the
\* bytes after the indicator, whatever the configured flags were; otherwise
\* the cursor is over the bytes after the word (and after the indicator,
\* when there is one).
C4_StatefulWordDecidesCompression ==
    (Fed /\ ~manual_compression /\ STATEFUL_FLAGS \in last.pre.flags /\ Len(last.data) >= 4)
        => LET word == LEBits(Take(last.data, 4))
               compressed == WITH_COMPRESSION \in word
           IN  /\ last.had_word /\ last.word = word
               /\ flags = word \cap KnownFlags
               /\ (compressed /\ Len(last.data) >= 5 /\ last.data[5] # 0)
                      => /\ last.z.branch = "compressed"
                         /\ Len(last.data) >= 9
                                => last.z.declared = LEBits(SubSeq(last.data, 6, 9))
                         /\ last.outcome = "ok" => reader = NewReader(last.z.inflated)
               /\ (compressed /\ Len(last.data) >= 5 /\ last.data[5] = 0)
                      => last.outcome = "ok" /\ reader = NewReader(Drop(last.data, 5))
               /\ ~compressed
                      => last.outcome = "ok" /\ reader = NewReader(Drop(last.data, 4))

\* Primed through the compressed branch by an engine whose configured
\* flags did not hold WITH_COMPRESSION.
C4_Witness ==
    /\ Fed /\ ~manual_compression /\ last.outcome = "ok"
    /\ STATEFUL_FLAGS \in last.pre.flags /\ WITH_COMPRESSION \notin last.pre.flags
    /\ WITH_COMPRESSION \in last.word
    /\ last.z.branch = "compressed" /\ Len(last.z.inflated) > 0

\* Whether feed_data read the flags word from the inflated bytes.
ManualStateful == manual_compression /\ STATEFUL_FLAGS \in last.pre.flags
SizesAgree == last.z.declared = NatBits(Len(last.z.inflated))
Inflated == Fed /\ last.z.branch = "compressed" /\ last.z.zlib = "ok"

\* C5, as stated: whenever a compressed payload is inflated, priming
\* succeeds with a cursor over exactly the inflated bytes if and only if
\* their number equals the declared size, and any other declared size
\* fails with the size-mismatch error.
C5_SucceedsIffSizesAgree ==
    Inflated =>
        /\ (last.outcome = "ok" /\ reader = NewReader(last.z.inflated)) <=> SizesAgree
        /\ ~SizesAgree => last.error = "CompressionSizeMismatch"

\* C5, amended: in manual mode with STATEFUL configured the inflated bytes
\* must also hold the 4-byte flags word, which is read from them, so that
\* the cursor starts at bit 32.
C5_SucceedsIffSizesAgreeAndWordFits ==
    Inflated =>
        /\ last.outcome = "ok"
               <=> (SizesAgree /\ (ManualStateful => Len(last.z.inflated) >= 4))
        /\ last.outcome = "ok"
               => reader = [buf |-> last.z.inflated,
                            pos |-> IF ManualStateful THEN U32Bits ELSE 0]
        /\ ~SizesAgree => last.error = "CompressionSizeMismatch"
        /\ (SizesAgree /\ last.outcome = "err") => last.error = "Truncated"

\* Primed in manual mode with STATEFUL from a stream of the declared size.
C5_Witness ==
    /\ Inflated /\ ManualStateful /\ SizesAgree /\ last.outcome = "ok"
    /\ Len(last.z.inflated) > 4

\* Bit i of the n-bit pattern v sign-extended to 64 bits: bit i of v below
\* n, and bit n-1 of v from n on.
SignExtend(v, n) == v \cup (IF (n - 1) \in v THEN n..(U64Bits - 1) ELSE {})

\* C6: for every width n and every n-bit pattern read, deserialize_signed_bits
\* returns the pattern's value as an n-bit two's-complement integer.
C6_SignedBitsAreSignExtended ==
    (last.op = "deserialize_signed_bits" /\ last.error # "Truncated")
        => /\ last.outcome = "ok"
           /\ last.bits = SignExtend(last.raw, last.n)

\* The first byte boundary at or after bit offset p.
Boundary(p) == CHOOSE a \in p..(p + 7) : a % 8 = 0

\* C7: with COMPACT_LENGTH_PREFIXES, a length read that returns a length
\* realigned the cursor, read one flag bit, and then read 7 bits (flag
\* clear: 8 bits in all) or 31 bits (flag set: 32 bits in all) as the length.
C7_CompactLengthWidths ==
    (LenRead /\ COMPACT_LENGTH_PREFIXES \in flags /\ last.outcome = "ok")
        => LET a == Boundary(last.pre.pos)
               width == IF BufBit(reader.buf, a) THEN 31 ELSE 7
           IN  /\ reader.pos = a + 1 + width
               /\ last.bits = {k \in 0..(width - 1) : BufBit(reader.buf, a + 1 + k)}

\* A 31-bit length read from a cursor that was not on a byte boundary.
C7_Witness ==
    /\ LenRead /\ COMPACT_LENGTH_PREFIXES \in flags /\ last.outcome = "ok"
    /\ last.pre.pos % 8 # 0
    /\ reader.pos = Boundary(last.pre.pos) + 32
    /\ last.bits # {}

\* C8: when the identity strategy returns no type definition, deserialize
\* returns Empty and leaves the cursor where the strategy left it.
C8_EmptyReadsNothingMore ==
    (Deserialized /\ last.identity = "none")
        => /\ last.outcome = "ok" /\ last.value = "Empty"
           /\ reader.pos = last.id_end
           /\ last.id_end = last.pre.pos + IdentityBits(tag)

\* Empty decoded from a hash that is not zero.
C8_Witness ==
    /\ Deserialized /\ last.identity = "none" /\ last.outcome = "ok"
    /\ BitsLeft(reader) > 0
    /\ \E k \in 1..U32Bits : BufBit(reader.buf, reader.pos - k)

\* C9: every operation ends by returning a value or an error: no call
\* panics.
C9_NoPanic == last.outcome # "panic"

\* C10: when feed_data replaces the flags from an embedded word, the flags
\* are the word restricted to the five known bits, and the unknown bits
\* cause no error: the call fails only if a read after the word fails.
C10_UnknownBitsDropped ==
    (Fed /\ last.had_word)
        => /\ last.word = LEBits(Take(IF manual_compression THEN last.z.inflated
                                                          ELSE last.data, 4))
           /\ flags = {b \in last.word : b <= FORBID_DELTA_ENCODE}
           /\ (manual_compression \/ WITH_COMPRESSION \notin last.word)
                  => last.outcome = "ok"

\* Flags replaced from a word with unknown bits, in manual mode.
C10_Witness ==
    /\ Fed /\ last.had_word /\ last.outcome = "ok" /\ manual_compression
    /\ \E b \in last.word : b > FORBID_DELTA_ENCODE
    /\ flags # {}

---------------------------------------------------------------------------
(* Field reconstruction, as it is to behave on a resolved type.            *)

Resolved == Deserialized /\ last.identity = "some"
MaskedIn(i) == TypeDef[i].flags \cap property_mask # {}
\* Whether field i is preceded by a presence bit.
HasPresenceBit(i) ==
    MaskedIn(i) /\ "DELTA_ENCODE" \in TypeDef[i].flags /\ FORBID_DELTA_ENCODE \notin flags
\* The bits field i accounts for: its presence bit and, when it is in the
\* result, its value.
ConsumedBy(i) ==
    (IF HasPresenceBit(i) THEN 1 ELSE 0)
        + (IF TypeDef[i].name \in last.fields THEN TypeDef[i].bits ELSE 0)
RECURSIVE ConsumedBefore(_)
ConsumedBefore(i) == IF i <= 1 THEN 0 ELSE ConsumedBefore(i - 1) + ConsumedBy(i - 1)

\* C11: when the identity resolves to a type definition, deserialize does
\* not panic, and when it returns the object, a field whose flags do not
\* intersect property_mask is not in it and accounts for no bit of the
\* cursor, and a field whose flags intersect the mask (and that has no
\* presence bit) is in it.
C11_MaskedOutFieldsSkipped ==
    Resolved =>
        /\ last.outcome # "panic"
        /\ last.outcome = "ok" =>
               /\ \A i \in DOMAIN TypeDef :
                      /\ ~MaskedIn(i) => TypeDef[i].name \notin last.fields
                      /\ (MaskedIn(i) /\ ~HasPresenceBit(i)) => TypeDef[i].name \in last.fields
               /\ reader.pos = last.id_end + ConsumedBefore(Len(TypeDef) + 1)

\* C12: when the identity resolves to a type definition, deserialize does
\* not panic, and when it returns the object, a masked-in DELTA_ENCODE field
\* is, without FORBID_DELTA_ENCODE in the flags, preceded by one presence
\* bit and in the object exactly when that bit is set, and, with
\* FORBID_DELTA_ENCODE, in the object with no presence bit read.
C12_PresenceBitUnlessForbidden ==
    Resolved =>
        /\ last.outcome # "panic"
        /\ last.outcome = "ok" =>
               \A i \in DOMAIN TypeDef :
                   (MaskedIn(i) /\ "DELTA_ENCODE" \in TypeDef[i].flags) =>
                       /\ TypeDef[i].name \in last.fields
                              <=> (FORBID_DELTA_ENCODE \in flags
                                   \/ BufBit(reader.buf, last.id_end + ConsumedBefore(i)))
                       /\ reader.pos >= last.id_end + ConsumedBefore(i) + ConsumedBy(i)

\* The bytes a fixed-width length takes: 2 for read_str_len (u16), 4 for
\* read_seq_len (u32).
LenBytes == IF last.op = "read_str_len" THEN 2 ELSE 4

\* C17: a length read that returns a length started at the first byte
\* boundary at or after the cursor, with and without
\* COMPACT_LENGTH_PREFIXES; without it, read_str_len took exactly the 16
\* bits and read_seq_len exactly the 32 bits from that boundary, as a
\* little-endian unsigned value.
C17_FixedLengthWidths ==
    (LenRead /\ last.outcome = "ok")
        => LET a == Boundary(last.pre.pos)
           IN  IF COMPACT_LENGTH_PREFIXES \in flags
               THEN reader.pos \in {a + U8Bits, a + U32Bits}
               ELSE /\ reader.pos = a + U8Bits * LenBytes
                    /\ last.bits
                           = LEBits(SubSeq(reader.buf, a \div U8Bits + 1, a \div U8Bits + LenBytes))

\* A 32-bit length read from a cursor that was not on a byte boundary.
C17_Witness ==
    /\ last.op = "read_seq_len" /\ last.outcome = "ok"
    /\ COMPACT_LENGTH_PREFIXES \notin flags
    /\ last.pre.pos % U8Bits # 0
    /\ reader.pos = Boundary(last.pre.pos) + U32Bits
    /\ last.bits # {}

\* C15: a deserialize call that fails with the recursion-limit error has
\* not called the identity strategy and leaves the cursor at the bit offset
\* it had before the call.
C15_BudgetFailureReadsNothing ==
    (Deserialized /\ last.error = "RecursionLimitExceeded")
        => /\ last.outcome = "err"
           /\ last.identity = "not called"
           /\ reader.pos = last.pre.pos
           /\ last.id_end = last.pre.pos

\* The recursion-limit error on a cursor that is past its first byte and
\* still holds the bits of an identity.
C15_Witness ==
    /\ Deserialized /\ last.error = "RecursionLimitExceeded"
    /\ last.pre.recursion_limit = 1
    /\ reader.pos = U8Bits /\ BitsLeft(reader) >= IdentityBits(tag)

---------------------------------------------------------------------------
(* Priming.                                                                *)

\* C13: in manual mode feed_data reads no indicator byte and hands the
\* buffer to decompress_data as a 4-byte little-endian size and a zlib
\* stream, whatever the flags; when it succeeds with STATEFUL configured,
\* the flags are the little-endian word in the first 4 bytes of the
\* inflated stream and the cursor is over the inflated bytes, right after
\* that word; without STATEFUL the flags stay and the cursor is at the
\* start of the inflated bytes.
C13_ManualModeFraming ==
    (Fed /\ manual_compression) =>
        /\ ~last.indicator
        /\ last.z.branch = "compressed"
        /\ Len(last.data) >= 4 =>
               /\ last.z.declared = LEBits(Take(last.data, 4))
               /\ last.z.zlib # "none"
               /\ last.z.zlib = "ok" => last.z.inflated = ZlibDecompress(Drop(last.data, 4)).bytes
        /\ last.outcome = "ok" =>
               IF STATEFUL_FLAGS \in last.pre.flags
               THEN /\ last.had_word
                    /\ last.word = LEBits(Take(last.z.inflated, 4))
                    /\ flags = last.word \cap KnownFlags
                    /\ reader = [buf |-> last.z.inflated, pos |-> 4 * U8Bits]
               ELSE /\ ~last.had_word
                    /\ flags = last.pre.flags
                    /\ reader = NewReader(last.z.inflated)

\* Primed in manual mode by an engine configured with STATEFUL and without
\* WITH_COMPRESSION: the flags came from the inflated stream, which goes on
\* after the word.
C13_Witness ==
    /\ Fed /\ manual_compression /\ last.outcome = "ok"
    /\ last.pre.flags = {STATEFUL_FLAGS}
    /\ last.had_word /\ flags # last.pre.flags
    /\ last.word # LEBits(Take(last.data, 4))
    /\ reader.pos = U32Bits /\ BitsLeft(reader) > 0

WordBytes == IF last.had_word THEN 4 ELSE 0

\* C14: in automatic mode, once any flags word is read: when the flags then
\* lack WITH_COMPRESSION, no indicator byte is read, the call succeeds and
\* the cursor is over all the bytes that remain; when they hold
\* WITH_COMPRESSION and a byte remains, exactly that one byte is read as the
\* indicator: when it is zero the cursor is over the bytes after it, as
\* they are, and when it is not, decompress_data is given the bytes after it.
C14_IndicatorOnlyWithCompression ==
    (Fed /\ ~manual_compression /\ (STATEFUL_FLAGS \in last.pre.flags => last.had_word))
        => IF WITH_COMPRESSION \notin flags
           THEN /\ ~last.indicator /\ last.z = NoZ
                /\ last.outcome = "ok"
                /\ reader = NewReader(Drop(last.data, WordBytes))
           ELSE /\ last.indicator <=> Len(last.data) > WordBytes
                /\ ~last.indicator => last.outcome = "err"
                /\ (last.indicator /\ last.data[WordBytes + 1] = 0)
                       => /\ last.z = NoZ
                          /\ last.outcome = "ok"
                          /\ reader = NewReader(Drop(last.data, WordBytes + 1))
                /\ (last.indicator /\ last.data[WordBytes + 1] # 0)
                       => /\ last.z.branch = "compressed"
                          /\ Len(last.data) >= WordBytes + 5
                                 => last.z.declared
                                        = LEBits(SubSeq(last.data, WordBytes + 2, WordBytes + 5))

\* A zero indicator read by an engine configured with WITH_COMPRESSION and
\* without STATEFUL: the cursor is over the bytes after it.
C14_Witness ==
    /\ Fed /\ ~manual_compression /\ last.outcome = "ok"
    /\ ~last.had_word /\ WITH_COMPRESSION \in flags
    /\ last.indicator /\ last.z = NoZ
    /\ Len(last.data) = 3 /\ reader = NewReader(Drop(last.data, 1))

\* C18: a feed_data call that returns an error leaves the flags and the
\* cursor as they were before the call.
C18_FailedPrimingChangesNothing ==
    [][(last'.op = "feed_data" /\ last'.outcome = "err")
           => (flags' = flags /\ reader' = reader)]_vars

\* C19: when STATEFUL is in the flags before a feed_data call, the call
\* reads an embedded flags word (or fails for want of its 4 bytes) and
\* STATEFUL is still in the flags after it, so that every later call reads
\* a word too.
C19_StatefulStaysEnabled ==
    [][(last'.op = "feed_data" /\ STATEFUL_FLAGS \in flags)
           => /\ last'.had_word \/ last'.outcome = "err"
              /\ STATEFUL_FLAGS \in flags']_vars

=============================================================================
